---- MODULE Spec2Model ----
(***************************************************************************)
(* Model of tinySA_python.py: the TinySA serial client.                    *)
(*                                                                         *)
(* A byte is a one-character string and a byte string is a sequence of     *)
(* bytes.  The transport is seen through what the client uses of it:       *)
(* write(), in_waiting and read(in_waiting).  The device answers every     *)
(* command line with  <echoed line> <payload> ch>  and the transport hands  *)
(* those bytes over in arbitrary chunks.                                   *)
(***************************************************************************)
EXTENDS Integers, Sequences, FiniteSets, TLC

VARIABLES
    ser,        \* self.ser: "None" after construction, "open" once connected
    wire,       \* bytes the device has sent that have not reached the host yet
    in_waiting, \* bytes in the host's input buffer (ser.in_waiting is its length)
    pc,         \* position of the caller: "idle" or "loop" (inside getSerialReturn)
    buffer,     \* local variable buffer of getSerialReturn
    complete,   \* local variable complete of getSerialReturn
    cur,        \* the command call in progress or last made: [cmd, val]
    written,    \* the writes made to the transport by that call, in order
    nreads,     \* the number of ser.read calls made by that call, counted up to MaxReads
    polls,      \* the number of loop iterations since the last read that found nothing waiting
    reply,      \* the bytes the device sent in answer to that call's write
    payload,    \* the payload part of reply
    clean,      \* no byte of an earlier reply was still unread when that call wrote
    outcome,    \* "none", "pending", "returned", "rejected" or "raised"
    frame,      \* the value getSerialReturn returned to that call
    msgbytes,   \* the value the command returned
    lost,       \* bytes read by that call that were neither returned nor kept
    ncalls,     \* the number of command calls made so far
    msgbytes2,  \* cleanReturn applied to msgbytes, once that has been done
    hid,        \* which serial.Serial object self.ser refers to, 0 for None
    opened,     \* the serial.Serial objects this object created, still open
    nserial,    \* the number of serial.Serial objects created so far
    ret,        \* what the last call of connect or disconnect returned
    nconn,      \* the number of calls of connect made so far
    th          \* the call each of several threads is in, on this one object

\* The variables that only some of the specifications below move
aux == <<msgbytes2, hid, opened, nserial, ret, nconn, th>>

vars == <<ser, wire, in_waiting, pc, buffer, complete, cur, written, nreads,
          polls, reply, payload, clean, outcome, frame, msgbytes, lost, ncalls,
          aux>>

-----------------------------------------------------------------------------
(* Bounds *)

MaxCalls == 2
MaxDispatchCalls == 1
MaxPolls == 1
MaxReads == 3
MaxLen == 4
MaxFaultCalls == 1
MaxStubCalls == 2
MaxConnects == 3
MaxConnCalls == 1
MaxThreadCalls == 1

-----------------------------------------------------------------------------
(* Byte strings *)

CRLF == <<"\r", "\n">>
PROMPT == <<"c", "h", ">">>
DELIM == <<">">>

Min(S) == CHOOSE i \in S : \A j \in S : i <= j

\* bytes.find(sub): the lowest 0-based index where sub occurs, or -1
find(data, sub) ==
    LET hits == {i \in 0..(Len(data) - Len(sub)) :
                    SubSeq(data, i + 1, i + Len(sub)) = sub}
    IN  IF hits = {} THEN -1 ELSE Min(hits)

\* data[:n] for n >= 0
upto(data, n) == SubSeq(data, 1, n)

\* data[n:] for n >= 0
from(data, n) == SubSeq(data, n + 1, Len(data))

\* data[:-n] for n > 0
dropLast(data, n) ==
    IF Len(data) > n THEN SubSeq(data, 1, Len(data) - n) ELSE <<>>

\* data.endswith(sub)
endswith(data, sub) ==
    /\ Len(data) >= Len(sub)
    /\ SubSeq(data, Len(data) - Len(sub) + 1, Len(data)) = sub

startswith(data, sub) ==
    /\ Len(data) >= Len(sub)
    /\ SubSeq(data, 1, Len(sub)) = sub

-----------------------------------------------------------------------------
(* cleanReturn *)

cleanReturnStrip3(data) ==
    LET first_newline_index == find(data, CRLF)
        d1 == IF first_newline_index # -1
              THEN from(data, first_newline_index + 2)
              ELSE data
    IN  IF endswith(d1, PROMPT) THEN dropLast(d1, 3) ELSE d1

\* cleanReturn without the test of find's result: data[-1 + 2:]
cleanReturnNoGuard(data) ==
    LET first_newline_index == find(data, CRLF)
        d1 == from(data, first_newline_index + 2)
    IN  IF endswith(d1, PROMPT) THEN dropLast(d1, 4) ELSE d1

cleanReturn(data) ==
    LET first_newline_index == find(data, CRLF)
        d1 == IF first_newline_index # -1
              THEN from(data, first_newline_index + 2)
              ELSE data
    IN  IF endswith(d1, PROMPT) THEN dropLast(d1, 4) ELSE d1

-----------------------------------------------------------------------------
(* getSerialReturn: one iteration of the loop that found bytes waiting.    *)
(* buf and comp are the locals before the iteration, chunk is what         *)
(* ser.read(ser.in_waiting) returned.  done is TRUE when the iteration     *)
(* reaches the break.                                                      *)

readIterationNoAccumulate(buf, comp, chunk) ==
    LET b == chunk
        gt == find(b, DELIM)
        ch == find(b, PROMPT)
    IN  IF gt = -1
        THEN [buffer |-> b, complete |-> comp, done |-> FALSE]
        ELSE IF ch = -1
        THEN [buffer |-> b, complete |-> upto(b, gt + 1), done |-> FALSE]
        ELSE [buffer |-> from(b, ch + 1), complete |-> upto(b, gt + 1),
              done |-> TRUE]

readIteration(buf, comp, chunk) ==
    LET b == buf \o chunk
        gt == find(b, DELIM)
        ch == find(b, PROMPT)
    IN  IF gt = -1
        THEN \* buffer.index(b'>') raises ValueError: continue
             [buffer |-> b, complete |-> comp, done |-> FALSE]
        ELSE IF ch = -1
        THEN \* complete is assigned, buffer.index(b'ch>') raises ValueError
             [buffer |-> b, complete |-> upto(b, gt + 1), done |-> FALSE]
        ELSE [buffer |-> from(b, ch + 1), complete |-> upto(b, gt + 1),
              done |-> TRUE]

\* The device's answer to a command line: the echoed line (it ends with
\* '\r\n'), the payload, the prompt.
DeviceReply(writebyte, pl) == writebyte \o pl \o PROMPT


-----------------------------------------------------------------------------
(* Text literals *)

AUTO == <<"a", "u", "t", "o">>
ON == <<"o", "n">>
OFF == <<"o", "f", "f">>
NONE == <<"N", "o", "n", "e">>
BUILTIN_ID == <<"<", "b", "u", "i", "l", "t", "-", "i", "n", " ", "f", "u", "n", "c", "t", "i", "o", "n", " ", "i", "d", ">">>
EMPTY == <<>>
ERROR == <<"E", "R", "R", "O", "R">>

-----------------------------------------------------------------------------
(* Argument values: a Python int, a Python str or None *)

Int_(n) == [t |-> "int", v |-> n]
Str_(s) == [t |-> "str", s |-> s]
None_ == [t |-> "none"]

isinstance_int(val) == val.t = "int"

DIGITS == <<"0", "1", "2", "3", "4", "5", "6", "7", "8", "9">>

RECURSIVE strNat(_)
strNat(n) ==
    IF n < 10 THEN <<DIGITS[n + 1]>>
    ELSE strNat(n \div 10) \o <<DIGITS[(n % 10) + 1]>>

\* str(val) of the argument values the commands format
str(val) ==
    CASE val.t = "int" ->
            IF val.v < 0 THEN <<"-">> \o strNat(0 - val.v) ELSE strNat(val.v)
      [] val.t = "str" /\ val.s = "auto" -> AUTO
      [] val.t = "str" /\ val.s = "on" -> ON
      [] val.t = "str" /\ val.s = "off" -> OFF
      [] OTHER -> NONE

\* str(id): the commands dac and vbat_offset format the builtin function id
str_id == BUILTIN_ID

\* val == <string literal>
eqstr(val, s) == val.t = "str" /\ val.s = s

\* val in np.arange(lo, hi, 1): stop exclusive
in_arange(val, lo, hi) == val.t = "int" /\ lo <= val.v /\ val.v < hi

\* val in [<ints>]
in_ints(val, S) == val.t = "int" /\ val.v \in S

\* val in [<strings>]
in_strs(val, S) == val.t = "str" /\ val.s \in S

\* What a command does before it returns: it writes writebyte and reads the
\* answer (tinySASerial), or returns msgbytes without any I/O, or raises.
Send(writebyte) == [kind |-> "send", writebyte |-> writebyte]
Reject(m) == [kind |-> "reject", msgbytes |-> m]
Raise == [kind |-> "raise"]
NotImplemented == [kind |-> "none"]


-----------------------------------------------------------------------------
(* The commands.  Each operator is the body of the method of that name up   *)
(* to its call of tinySASerial or its return without I/O.                   *)

agc(val) ==
    IF eqstr(val, "auto") \/ in_arange(val, 0, 8)
    THEN Send(<<"a", "g", "c", " ">> \o str(val) \o CRLF)
    ELSE Reject(ERROR)

attenuate(val) ==
    IF eqstr(val, "auto") \/ in_arange(val, 0, 31)
    THEN Send(<<"a", "t", "t", "e", "n", "u", "a", "t", "e", " ">> \o str(val) \o CRLF)
    ELSE Reject(EMPTY)

caloutput(val) ==
    IF in_strs(val, {"off"}) \/ in_ints(val, {1, 2, 3, 4, 10, 15, 30})
    THEN Send(<<"c", "a", "l", "o", "u", "t", "p", "u", "t", " ">> \o str(val) \o CRLF)
    ELSE Reject(EMPTY)

dac(val) ==
    IF val = None_
    THEN Send(<<"d", "a", "c", "\r", "\n">>)
    ELSE IF isinstance_int(val) /\ 0 <= val.v /\ val.v <= 4095
    THEN Send(<<"d", "a", "c", " ">> \o str_id \o CRLF)
    ELSE Reject(EMPTY)

data(val) ==
    IF in_ints(val, {0, 1, 2})
    THEN Send(<<"d", "a", "t", "a", " ">> \o str(val) \o CRLF)
    ELSE Reject(EMPTY)

deviceid(val) ==
    IF val = None_
    THEN Send(<<"d", "e", "v", "i", "c", "e", "i", "d", "\r", "\n">>)
    ELSE IF isinstance_int(val)
    THEN Send(<<"d", "e", "v", "i", "c", "e", "i", "d", " ">> \o str(val) \o CRLF)
    ELSE Reject(EMPTY)

ext_gain(val) ==
    IF isinstance_int(val) /\ -100 <= val.v /\ val.v <= 100
    THEN Send(<<"e", "x", "t", "_", "g", "a", "i", "n", " ">> \o str(val) \o CRLF)
    ELSE Reject(EMPTY)

\* 100*10**3 <= val <= 53*10**8.  53*10**8 exceeds the integers TLC computes
\* with; val <= 53*10**8 is written as the equivalent val \div 100 <= 53*10**6.
freq(val) ==
    IF isinstance_int(val) /\ 100 * 10^3 <= val.v /\ val.v \div 100 <= 53 * 10^6
    THEN Send(<<"f", "r", "e", "q", " ">> \o str(val) \o CRLF)
    ELSE Reject(EMPTY)

\* (val == 0) or (433*10**6 <= val <= 435*10**6): the comparison of an int with
\* a str or None raises TypeError
setIF(val) ==
    IF ~isinstance_int(val)
    THEN Raise
    ELSE IF val.v = 0 \/ (433 * 10^6 <= val.v /\ val.v <= 435 * 10^6)
    THEN Send(<<"i", "f", " ">> \o str(val) \o CRLF)
    ELSE Reject(EMPTY)

\* (val == 0) or (975*10**6 <= val <= 979*10**6): the comparison of an int with
\* a str or None raises TypeError
if1(val) ==
    IF ~isinstance_int(val)
    THEN Raise
    ELSE IF val.v = 0 \/ (975 * 10^6 <= val.v /\ val.v <= 979 * 10^6)
    THEN Send(<<"i", "f", "1", " ">> \o str(val) \o CRLF)
    ELSE Reject(EMPTY)

levelchange(val) ==
    IF in_arange(val, -70, 71)
    THEN Send(<<"l", "e", "v", "e", "l", "c", "h", "a", "n", "g", "e", " ">> \o str(val) \o CRLF)
    ELSE Reject(EMPTY)

load(val) ==
    IF in_ints(val, {0, 1, 2, 3, 4})
    THEN Send(<<"l", "o", "a", "d", " ">> \o str(val) \o CRLF)
    ELSE Reject(EMPTY)

lna(val) ==
    IF in_strs(val, {"on", "off"})
    THEN Send(<<"l", "n", "a", " ">> \o str(val) \o CRLF)
    ELSE Reject(EMPTY)

lna2(val) ==
    IF eqstr(val, "auto") \/ in_ints(val, {0, 1, 2, 3, 4, 5, 6, 7})
    THEN Send(<<"l", "n", "a", "2", " ">> \o str(val) \o CRLF)
    ELSE Reject(EMPTY)

output(val) ==
    IF in_strs(val, {"on", "off"})
    THEN Send(<<"o", "u", "t", "p", "u", "t", " ">> \o str(val) \o CRLF)
    ELSE Reject(EMPTY)

rbw(val) ==
    IF eqstr(val, "auto")
    THEN Send(<<"r", "b", "w", " ">> \o str(val) \o CRLF)
    ELSE IF isinstance_int(val) /\ 3 * 10^3 <= val.v /\ val.v <= 600 * 10^3
    THEN Send(<<"r", "b", "w", " ">> \o str(val) \o CRLF)
    ELSE Reject(EMPTY)

recall(val) ==
    IF in_ints(val, {0, 1, 2, 3, 4})
    THEN Send(<<"r", "e", "c", "a", "l", "l", " ">> \o str(val) \o CRLF)
    ELSE Reject(EMPTY)

refresh(val) ==
    IF in_strs(val, {"on", "off"})
    THEN Send(<<"r", "e", "f", "r", "e", "s", "h", " ">> \o str(val) \o CRLF)
    ELSE Reject(EMPTY)

save(val) ==
    IF in_ints(val, {0, 1, 2, 3, 4})
    THEN Send(<<"s", "a", "v", "e", " ">> \o str(val) \o CRLF)
    ELSE Reject(EMPTY)

selftest(val) ==
    IF in_ints(val, {0, 1, 2, 3, 4, 5, 6, 7, 8, 9})
    THEN Send(<<"s", "e", "l", "f", "t", "e", "s", "t", " ">> \o str(val) \o CRLF)
    ELSE Reject(EMPTY)

spur(val) ==
    IF in_strs(val, {"on", "off"})
    THEN Send(<<"s", "p", "u", "r", " ">> \o str(val) \o CRLF)
    ELSE Reject(EMPTY)

vbat_offset(val) ==
    IF val = None_
    THEN Send(<<"v", "b", "a", "t", "_", "o", "f", "f", "s", "e", "t", "\r", "\n">>)
    ELSE IF isinstance_int(val) /\ 0 <= val.v /\ val.v <= 4095
    THEN Send(<<"v", "b", "a", "t", "_", "o", "f", "f", "s", "e", "t", " ">> \o str_id \o CRLF)
    ELSE Reject(EMPTY)

capture == Send(<<"c", "a", "p", "t", "u", "r", "e", "\r", "\n">>)

pause == Send(<<"p", "a", "u", "s", "e", "\r", "\n">>)

version == Send(<<"v", "e", "r", "s", "i", "o", "n", "\r", "\n">>)

\* The methods that have no implementation yet: each prints 'Function does
\* not exist yet. error checking needed' and returns None.

\* bulk as a method that sends its command line
bulkSends == Send(<<"b", "u", "l", "k", "\r", "\n">>)

bulk == NotImplemented

calc == NotImplemented

color == NotImplemented

correction == NotImplemented

direct == NotImplemented

fill == NotImplemented

hop == NotImplemented

level(val) == NotImplemented

leveloffset == NotImplemented

line == NotImplemented

marker == NotImplemented

mode == NotImplemented

modulation == NotImplemented

scan == NotImplemented

scanraw == NotImplemented

sd_delete == NotImplemented

sd_read == NotImplemented

sweep == NotImplemented

sweeptime == NotImplemented

touch == NotImplemented

trace == NotImplemented

trigger == NotImplemented

ultra == NotImplemented

zero == NotImplemented

UnimplementedCommands ==
    {"bulk", "calc", "color", "correction", "direct", "fill", "hop", "level", "leveloffset", "line", "marker", "mode", "modulation", "scan", "scanraw", "sd_delete", "sd_read", "sweep", "sweeptime", "touch", "trace", "trigger", "ultra", "zero"}

\* The methods that check their argument
ValidatingCommands ==
    {"agc", "attenuate", "caloutput", "dac", "data", "deviceid", "ext_gain", "freq", "setIF", "if1", "levelchange", "load", "lna", "lna2", "output", "rbw", "recall", "refresh", "save", "selftest", "spur", "vbat_offset"}

\* The methods that take no argument, as far as the framing is exercised
PlainCommands == {"capture", "pause", "version"}

\* The call of method cmd with argument val
Command(cmd, val) ==
    CASE cmd = "agc" -> agc(val)
      [] cmd = "attenuate" -> attenuate(val)
      [] cmd = "caloutput" -> caloutput(val)
      [] cmd = "dac" -> dac(val)
      [] cmd = "data" -> data(val)
      [] cmd = "deviceid" -> deviceid(val)
      [] cmd = "ext_gain" -> ext_gain(val)
      [] cmd = "freq" -> freq(val)
      [] cmd = "setIF" -> setIF(val)
      [] cmd = "if1" -> if1(val)
      [] cmd = "levelchange" -> levelchange(val)
      [] cmd = "load" -> load(val)
      [] cmd = "lna" -> lna(val)
      [] cmd = "lna2" -> lna2(val)
      [] cmd = "output" -> output(val)
      [] cmd = "rbw" -> rbw(val)
      [] cmd = "recall" -> recall(val)
      [] cmd = "refresh" -> refresh(val)
      [] cmd = "save" -> save(val)
      [] cmd = "selftest" -> selftest(val)
      [] cmd = "spur" -> spur(val)
      [] cmd = "vbat_offset" -> vbat_offset(val)
      [] cmd = "capture" -> capture
      [] cmd = "pause" -> pause
      [] cmd = "version" -> version
      [] cmd = "bulk" -> bulk
      [] cmd = "calc" -> calc
      [] cmd = "color" -> color
      [] cmd = "correction" -> correction
      [] cmd = "direct" -> direct
      [] cmd = "fill" -> fill
      [] cmd = "hop" -> hop
      [] cmd = "level" -> level(val)
      [] cmd = "leveloffset" -> leveloffset
      [] cmd = "line" -> line
      [] cmd = "marker" -> marker
      [] cmd = "mode" -> mode
      [] cmd = "modulation" -> modulation
      [] cmd = "scan" -> scan
      [] cmd = "scanraw" -> scanraw
      [] cmd = "sd_delete" -> sd_delete
      [] cmd = "sd_read" -> sd_read
      [] cmd = "sweep" -> sweep
      [] cmd = "sweeptime" -> sweeptime
      [] cmd = "touch" -> touch
      [] cmd = "trace" -> trace
      [] cmd = "trigger" -> trigger
      [] cmd = "ultra" -> ultra
      [] cmd = "zero" -> zero


-----------------------------------------------------------------------------
(* Inputs *)

\* Payloads the device answers with: none at all, the version text, a text
\* of two lines, data holding the byte '>', data holding the bytes 'ch>'
P_EMPTY == <<>>
P_VERSION == <<"1", ".", "2", ".", "3", "\r", "\n">>
P_LINES == <<"a", "\r", "\n", "b", "\r", "\n">>
P_GT == <<"a", ">", "b", "\r", "\n">>
P_PROMPT == <<"c", "h", ">", "a", "\r", "\n">>

Payloads == {P_EMPTY, P_VERSION, P_LINES, P_GT, P_PROMPT}

\* The payloads a command is answered with: pause with none, version with
\* one or two lines of text, capture with binary data, the validating
\* commands with none or a line of text
Replies(cmd) ==
    CASE cmd = "pause" -> {P_EMPTY}
      [] cmd = "version" -> {P_VERSION, P_LINES}
      [] cmd = "capture" -> {P_GT, P_PROMPT}
      [] OTHER -> {P_EMPTY, P_VERSION}

\* Payloads of text lines in which the delimiter byte does not occur
TextPayloads == {P_VERSION, P_LINES}

\* Arguments the validating commands are called with: the ends of every
\* documented and every coded range and their neighbours, the literals, None
IntVals ==
    {-101, -100, -71, -70, -1, 0, 1, 2, 3, 4, 5, 7, 8, 9, 10, 15, 30, 31, 32,
     70, 71, 99, 100, 101, 600, 601, 2999, 3000, 4095, 4096, 99999, 100000,
     600000, 600001, 432999999, 433000000, 435000000, 435000001,
     974999999, 975000000, 979000000, 979000001}

Vals ==
    {Int_(n) : n \in IntVals} \cup {Str_(w) : w \in {"auto", "on", "off"}}
        \cup {None_}

-----------------------------------------------------------------------------
(* The state machine *)

NoCall == [cmd |-> "", val |-> None_]

\* The threads of a program that shares one TinySA object
Threads == {"t1", "t2"}

\* A thread that is in no call: the locals of tinySASerial and
\* getSerialReturn, what the call wrote, and the frame it got
IdleThread ==
    [pc |-> "idle", buffer |-> <<>>, complete |-> <<>>, written |-> <<>>,
     frame |-> <<>>, outcome |-> "none", n |-> 0]

InitAux ==
    /\ msgbytes2 = <<>>
    /\ hid = 0
    /\ opened = {}
    /\ nserial = 0
    /\ ret = "none"
    /\ nconn = 0
    /\ th = [t \in Threads |-> IdleThread]

Init ==
    /\ ser = "None"
    /\ wire = <<>>
    /\ in_waiting = <<>>
    /\ pc = "idle"
    /\ buffer = <<>>
    /\ complete = <<>>
    /\ cur = NoCall
    /\ written = <<>>
    /\ nreads = 0
    /\ polls = 0
    /\ reply = <<>>
    /\ payload = <<>>
    /\ clean = TRUE
    /\ outcome = "none"
    /\ frame = <<>>
    /\ msgbytes = <<>>
    /\ lost = <<>>
    /\ ncalls = 0
    /\ InitAux

\* connect that forgets the stored handle when the port cannot be opened
connectClearsOnFailure(ok) ==
    /\ pc = "idle"
    /\ nconn' = nconn + 1
    /\ IF ok
       THEN /\ nserial' = nserial + 1
            /\ hid' = nserial + 1
            /\ ser' = "open"
            /\ ret' = "True"
            /\ \E collected \in BOOLEAN :
                  opened' = (IF collected THEN opened \ {hid} ELSE opened)
                                \cup {nserial + 1}
       ELSE /\ ret' = "False"
            /\ hid' = 0
            /\ ser' = "None"
            /\ UNCHANGED <<nserial, opened>>
    /\ UNCHANGED <<wire, in_waiting, pc, buffer, complete, cur, written,
                   nreads, polls, reply, payload, clean, outcome, frame,
                   msgbytes, lost, ncalls, msgbytes2, th>>

\* connect(port).  ok says whether serial.Serial(port=port, timeout=timeout)
\* opens the port.  When it does, self.ser is bound to the new object and
\* connect returns True; the object self.ser referred to before is not
\* closed by connect: it stays open unless the runtime finalises it
\* (collected).  When serial.Serial raises, the assignment does not happen,
\* the exception is printed and connect returns False.
connect(ok) ==
    /\ pc = "idle"
    /\ nconn' = nconn + 1
    /\ IF ok
       THEN /\ nserial' = nserial + 1
            /\ hid' = nserial + 1
            /\ ser' = "open"
            /\ ret' = "True"
            /\ \E collected \in BOOLEAN :
                  opened' = (IF collected THEN opened \ {hid} ELSE opened)
                                \cup {nserial + 1}
       ELSE /\ ret' = "False"
            /\ UNCHANGED <<nserial, hid, ser, opened>>
    /\ UNCHANGED <<wire, in_waiting, pc, buffer, complete, cur, written,
                   nreads, polls, reply, payload, clean, outcome, frame,
                   msgbytes, lost, ncalls, msgbytes2, th>>

\* disconnect(): self.ser.close().  With self.ser None the attribute access
\* raises AttributeError.  self.ser keeps referring to the closed object.
disconnect ==
    /\ pc = "idle"
    /\ IF ser = "None"
       THEN /\ ret' = "raised"
            /\ UNCHANGED <<ser, opened>>
       ELSE /\ ret' = "None"
            /\ ser' = "closed"
            /\ opened' = opened \ {hid}
    /\ UNCHANGED <<wire, in_waiting, pc, buffer, complete, cur, written,
                   nreads, polls, reply, payload, clean, outcome, frame,
                   msgbytes, lost, ncalls, msgbytes2, hid, nserial, nconn,
                   th>>

\* The first connect of a session, on a port that opens
Connect ==
    /\ ser = "None"
    /\ connect(TRUE)

\* A caller invokes method cmd with argument val.  An accepted argument
\* reaches tinySASerial: self.ser.write(bytes(writebyte)), to which the device
\* answers with the echoed line, payload pl and the prompt, and the caller
\* enters the loop of getSerialReturn with an empty buffer.  With self.ser
\* None the write raises AttributeError.  A rejected argument returns at once.
Call(cmd, val, pl) ==
    /\ pc = "idle"
    /\ ncalls' = ncalls + 1
    /\ cur' = [cmd |-> cmd, val |-> val]
    /\ nreads' = 0
    /\ polls' = 0
    /\ lost' = <<>>
    /\ frame' = <<>>
    /\ buffer' = <<>>
    /\ complete' = <<>>
    /\ UNCHANGED <<ser, in_waiting>>
    /\ UNCHANGED aux
    /\ LET d == Command(cmd, val)
       IN  IF d.kind = "send" /\ ser = "open"
           THEN /\ written' = <<d.writebyte>>
                /\ reply' = DeviceReply(d.writebyte, pl)
                /\ payload' = pl
                /\ wire' = wire \o DeviceReply(d.writebyte, pl)
                /\ clean' = (wire = <<>> /\ in_waiting = <<>>)
                /\ pc' = "loop"
                /\ outcome' = "pending"
                /\ msgbytes' = <<>>
           ELSE /\ written' = <<>>
                /\ reply' = <<>>
                /\ payload' = <<>>
                /\ clean' = (wire = <<>> /\ in_waiting = <<>>)
                /\ outcome' = IF d.kind = "reject" THEN "rejected"
                               ELSE IF d.kind = "none" THEN "notimplemented"
                               ELSE "raised"
                /\ msgbytes' = IF d.kind = "reject" THEN d.msgbytes ELSE <<>>
                /\ UNCHANGED <<wire, pc>>

\* The transport hands the next k bytes of the device's output to the host
Deliver(k) ==
    /\ k \in 1..Len(wire)
    /\ in_waiting' = in_waiting \o upto(wire, k)
    /\ wire' = from(wire, k)
    /\ UNCHANGED <<ser, pc, buffer, complete, cur, written, nreads, polls,
                   reply, payload, clean, outcome, frame, msgbytes, lost,
                   ncalls>>
    /\ UNCHANGED aux

\* A loop that gives the call up on an iteration that finds nothing to read
PollEmptyGiveUp ==
    /\ pc = "loop"
    /\ in_waiting = <<>>
    /\ polls < MaxPolls
    /\ polls' = polls + 1
    /\ pc' = "idle"
    /\ outcome' = "raised"
    /\ UNCHANGED <<ser, wire, in_waiting, buffer, complete, cur, written,
                   nreads, reply, payload, clean, frame, msgbytes, lost,
                   ncalls>>
    /\ UNCHANGED aux

\* A loop iteration of getSerialReturn that finds self.ser.in_waiting = 0
PollEmpty ==
    /\ pc = "loop"
    /\ in_waiting = <<>>
    /\ polls < MaxPolls
    /\ polls' = polls + 1
    /\ UNCHANGED <<ser, wire, in_waiting, pc, buffer, complete, cur, written,
                   nreads, reply, payload, clean, outcome, frame, msgbytes,
                   lost, ncalls>>
    /\ UNCHANGED aux

\* A loop iteration of getSerialReturn that finds bytes waiting and reads
\* them all.  When the iteration breaks, getSerialReturn returns complete,
\* its local buffer is dropped, and tinySASerial returns cleanReturn of it.
Read ==
    /\ pc = "loop"
    /\ in_waiting # <<>>
    /\ in_waiting' = <<>>
    /\ nreads' = IF nreads < MaxReads THEN nreads + 1 ELSE nreads
    /\ polls' = 0
    /\ LET r == readIteration(buffer, complete, in_waiting)
       IN  IF r.done
           THEN /\ frame' = r.complete
                /\ msgbytes' = cleanReturn(r.complete)
                /\ lost' = from(buffer \o in_waiting, Len(r.complete))
                /\ outcome' = "returned"
                /\ pc' = "idle"
                /\ buffer' = <<>>
                /\ complete' = <<>>
           ELSE /\ buffer' = r.buffer
                /\ complete' = r.complete
                /\ UNCHANGED <<frame, msgbytes, lost, outcome, pc>>
    /\ UNCHANGED <<ser, wire, cur, written, reply, payload, clean, ncalls>>
    /\ UNCHANGED aux

\* Commands without argument answered with any payload, delivered in any
\* chunks
Next ==
    \/ Connect
    \/ \E cmd \in PlainCommands : \E pl \in Replies(cmd) :
          ncalls < MaxCalls /\ Call(cmd, None_, pl)
    \/ \E k \in 1..Len(wire) : Deliver(k)
    \/ PollEmpty
    \/ Read

Spec == Init /\ [][Next]_vars

\* The validating commands with every argument, answered with no payload or
\* one line of text, delivered in one chunk
NextDispatch ==
    \/ Connect
    \/ \E cmd \in ValidatingCommands, val \in Vals : \E pl \in Replies(cmd) :
          ncalls < MaxDispatchCalls /\ Call(cmd, val, pl)
    \/ Deliver(Len(wire))
    \/ PollEmpty
    \/ Read

SpecDispatch == Init /\ [][NextDispatch]_vars


-----------------------------------------------------------------------------
(* The unimplemented methods, called between calls of capture, which uses   *)
(* the port and can return with bytes of its reply still unread.            *)
(* level is the only one of them that takes an argument.                    *)

StubVals == {None_, Int_(0)}

NextStubs ==
    \/ Connect
    \/ \E cmd \in UnimplementedCommands, val \in StubVals :
          /\ cmd = "level" \/ val = None_
          /\ ncalls < MaxStubCalls
          /\ Call(cmd, val, P_EMPTY)
    \/ ncalls < MaxStubCalls /\ Call("capture", None_, P_PROMPT)
    \/ \E k \in 1..Len(wire) : Deliver(k)
    \/ PollEmpty
    \/ Read

SpecStubs == Init /\ [][NextStubs]_vars


-----------------------------------------------------------------------------
(* The connection lifecycle: connect on ports that open or do not, and      *)
(* disconnect, in any order, around a command.                              *)

NextConn ==
    \/ \E ok \in BOOLEAN : nconn < MaxConnects /\ connect(ok)
    \/ disconnect
    \/ ncalls < MaxConnCalls /\ Call("version", None_, P_VERSION)
    \/ Deliver(Len(wire))
    \/ PollEmpty
    \/ Read

SpecConn == Init /\ [][NextConn]_vars


-----------------------------------------------------------------------------
(* Several threads call commands on one TinySA object.  Neither the command *)
(* methods nor tinySASerial nor getSerialReturn take a lock, so the steps   *)
(* of two calls interleave: each thread has its own locals, and all share   *)
(* self.ser.  The device answers the command lines in the order it gets     *)
(* them, and the transport hands over a reply of pause at a time or all it  *)
(* holds.                                                                   *)

ThreadCommands == {"pause", "version"}

ThreadReply(cmd) == IF cmd = "version" THEN P_VERSION ELSE P_EMPTY

\* Thread t calls method cmd: self.ser.write(bytes(writebyte)), then the
\* loop of getSerialReturn with an empty local buffer
TCall(t, cmd) ==
    /\ ser = "open"
    /\ th[t].pc = "idle"
    /\ th[t].n < MaxThreadCalls
    /\ LET d == Command(cmd, None_)
       IN  /\ wire' = wire \o DeviceReply(d.writebyte, ThreadReply(cmd))
           /\ th' = [th EXCEPT ![t] =
                        [pc |-> "loop", buffer |-> <<>>, complete |-> <<>>,
                         written |-> d.writebyte, frame |-> <<>>,
                         outcome |-> "pending", n |-> th[t].n + 1]]
    /\ UNCHANGED <<ser, in_waiting, pc, buffer, complete, cur, written,
                   nreads, polls, reply, payload, clean, outcome, frame,
                   msgbytes, lost, ncalls, msgbytes2, hid, opened, nserial,
                   ret, nconn>>

\* A loop iteration of thread t that finds bytes waiting and reads them all
TRead(t) ==
    /\ th[t].pc = "loop"
    /\ in_waiting # <<>>
    /\ in_waiting' = <<>>
    /\ LET r == readIteration(th[t].buffer, th[t].complete, in_waiting)
       IN  th' = [th EXCEPT ![t] =
                    IF r.done
                    THEN [@ EXCEPT !.pc = "idle", !.buffer = <<>>,
                                   !.complete = <<>>, !.frame = r.complete,
                                   !.outcome = "returned"]
                    ELSE [@ EXCEPT !.buffer = r.buffer,
                                   !.complete = r.complete]]
    /\ UNCHANGED <<ser, wire, pc, buffer, complete, cur, written, nreads,
                   polls, reply, payload, clean, outcome, frame, msgbytes,
                   lost, ncalls, msgbytes2, hid, opened, nserial, ret, nconn>>

NextThreads ==
    \/ Connect
    \/ \E t \in Threads, cmd \in ThreadCommands : TCall(t, cmd)
    \/ \E k \in {Len(DeviceReply(pause.writebyte, P_EMPTY)), Len(wire)} :
          Deliver(k)
    \/ \E t \in Threads : TRead(t)

SpecThreads == Init /\ [][NextThreads]_vars


-----------------------------------------------------------------------------
(* Transport faults.  The port can fail while it is open (the device is     *)
(* unplugged): from then on self.ser.in_waiting, read and write raise       *)
(* serial.SerialException.                                                  *)

Break ==
    /\ ser = "open"
    /\ ser' = "broken"
    /\ UNCHANGED <<wire, in_waiting, pc, buffer, complete, cur, written,
                   nreads, polls, reply, payload, clean, outcome, frame,
                   msgbytes, lost, ncalls>>
    /\ UNCHANGED aux

\* A loop whose handler for other exceptions takes the fault: it prints and
\* returns None, which the caller receives as a result
LoopFaultSwallowed ==
    /\ pc = "loop"
    /\ ser = "broken"
    /\ pc' = "idle"
    /\ outcome' = "returned"
    /\ msgbytes' = <<>>
    /\ lost' = buffer
    /\ buffer' = <<>>
    /\ complete' = <<>>
    /\ UNCHANGED <<ser, wire, in_waiting, cur, written, nreads, polls, reply,
                   payload, clean, frame, ncalls>>
    /\ UNCHANGED aux

\* A loop iteration of getSerialReturn on a failed port.  self.ser.in_waiting
\* (line 56) or self.ser.read (line 57) raises; both stand before the try of
\* line 58, so neither handler applies, and neither tinySASerial nor the
\* command method catches: the exception reaches the caller, and the local
\* buffer is dropped.
LoopFault ==
    /\ pc = "loop"
    /\ ser = "broken"
    /\ pc' = "idle"
    /\ outcome' = "raised"
    /\ msgbytes' = <<>>
    /\ lost' = buffer
    /\ buffer' = <<>>
    /\ complete' = <<>>
    /\ UNCHANGED <<ser, wire, in_waiting, cur, written, nreads, polls, reply,
                   payload, clean, frame, ncalls>>
    /\ UNCHANGED aux

NextFault ==
    \/ Connect
    \/ \E cmd \in PlainCommands : \E pl \in Replies(cmd) :
          ncalls < MaxFaultCalls /\ Call(cmd, None_, pl)
    \/ \E k \in 1..Len(wire) : ser = "open" /\ Deliver(k)
    \/ ser = "open" /\ PollEmpty
    \/ ser = "open" /\ Read
    \/ Break
    \/ LoopFault

SpecFault == Init /\ [][NextFault]_vars


-----------------------------------------------------------------------------
(* cleanReturn on its own: every byte string of up to MaxLen bytes over the *)
(* bytes the framing distinguishes is handed to cleanReturn once.  frame    *)
(* holds the argument and msgbytes the result.                              *)

Bytes == {"c", "h", ">", "\r", "\n", "a"}

ByteStrings == UNION {[1..n -> Bytes] : n \in 0..MaxLen}

InitClean ==
    /\ ser = "None"
    /\ wire = <<>>
    /\ in_waiting = <<>>
    /\ pc = "idle"
    /\ buffer = <<>>
    /\ complete = <<>>
    /\ cur = NoCall
    /\ written = <<>>
    /\ nreads = 0
    /\ polls = 0
    /\ reply = <<>>
    /\ payload = <<>>
    /\ clean = TRUE
    /\ outcome = "none"
    /\ frame \in ByteStrings
    /\ msgbytes = <<>>
    /\ lost = <<>>
    /\ ncalls = 0
    /\ InitAux

ApplyCleanReturn ==
    /\ outcome = "none"
    /\ msgbytes' = cleanReturn(frame)
    /\ outcome' = "returned"
    /\ UNCHANGED <<ser, wire, in_waiting, pc, buffer, complete, cur, written,
                   nreads, polls, reply, payload, clean, frame, lost, ncalls>>
    /\ UNCHANGED aux

\* cleanReturn is handed its own result
ApplyCleanReturnAgain ==
    /\ outcome = "returned"
    /\ msgbytes2' = cleanReturn(msgbytes)
    /\ outcome' = "again"
    /\ UNCHANGED <<ser, wire, in_waiting, pc, buffer, complete, cur, written,
                   nreads, polls, reply, payload, clean, frame, msgbytes, lost,
                   ncalls>>
    /\ UNCHANGED <<hid, opened, nserial, ret, nconn, th>>

NextClean ==
    \/ ApplyCleanReturn
    \/ ApplyCleanReturnAgain

SpecClean == InitClean /\ [][NextClean]_vars

-----------------------------------------------------------------------------
(* Properties *)

\* The reply up to and including its first delimiter byte
FirstFrame(r) == upto(r, find(r, DELIM) + 1)

\* C1: a call that starts with nothing of an earlier reply unread returns the
\* reply up to its first '>', whatever chunks the reply arrived in: the frame
\* is a function of the reply's bytes alone.
C1_FragmentationIndependence ==
    (outcome = "returned" /\ clean) => frame = FirstFrame(reply)

\* A reply holding '>' in its payload was returned after three or more reads
C1_Witness ==
    /\ outcome = "returned"
    /\ clean
    /\ payload = P_GT
    /\ nreads >= 3
    /\ frame = FirstFrame(reply)

\* C2: when a read brings bytes beyond the first prompt, the call returns the
\* frame ending in that prompt and none of the bytes read after it is lost:
\* they are kept for the next call.
C2_RemainderRetained ==
    (outcome = "returned" /\ endswith(frame, PROMPT)) => lost = <<>>

\* C3: after a read the loop does not go on once the buffer holds a '>'.
C3_StopsAtFirstDelimiter ==
    pc = "loop" => find(buffer, DELIM) = -1

\* C4: every frame returned ends with '>' and starts with the command line
\* (the echo and its line break) that the same call wrote.
C4_RawFrameInvariant ==
    outcome = "returned" =>
        /\ endswith(frame, DELIM)
        /\ startswith(frame, written[1])

\* The arguments each command documents in its usage line
InDocDomain(cmd, val) ==
    CASE cmd = "agc" -> eqstr(val, "auto") \/ in_ints(val, 0..7)
      [] cmd = "attenuate" -> eqstr(val, "auto") \/ in_ints(val, 0..31)
      [] cmd = "caloutput" ->
            eqstr(val, "off") \/ in_ints(val, {1, 2, 3, 4, 10, 15, 30})
      [] cmd = "dac" -> val = None_ \/ in_ints(val, 0..4095)
      [] cmd = "data" -> in_ints(val, 0..2)
      [] cmd = "deviceid" -> val = None_ \/ val.t = "int"
      [] cmd = "ext_gain" -> in_ints(val, -100..100)
      [] cmd = "freq" -> val.t = "int" /\ val.v >= 100000
      [] cmd = "setIF" ->
            in_ints(val, {0}) \/ in_ints(val, 433000000..435000000)
      [] cmd = "if1" ->
            in_ints(val, {0}) \/ in_ints(val, 975000000..979000000)
      [] cmd = "levelchange" -> in_ints(val, -70..70)
      [] cmd = "load" -> in_ints(val, 0..4)
      [] cmd = "lna" -> in_strs(val, {"on", "off"})
      [] cmd = "lna2" -> eqstr(val, "auto") \/ in_ints(val, 0..7)
      [] cmd = "output" -> in_strs(val, {"on", "off"})
      [] cmd = "rbw" -> eqstr(val, "auto") \/ in_ints(val, 3..600)
      [] cmd = "recall" -> in_ints(val, 0..4)
      [] cmd = "refresh" -> in_strs(val, {"on", "off"})
      [] cmd = "save" -> in_ints(val, 0..4)
      [] cmd = "selftest" -> in_ints(val, 0..9)
      [] cmd = "spur" -> in_strs(val, {"on", "off"})
      [] cmd = "vbat_offset" -> val = None_ \/ in_ints(val, 0..4095)

\* C5: a validating command called with an argument outside its documented
\* domain writes nothing, reads nothing and does not enter the read loop.
C5_NoIOOutsideDomain ==
    (cur.cmd \in ValidatingCommands /\ ~InDocDomain(cur.cmd, cur.val)) =>
        (written = <<>> /\ nreads = 0 /\ pc = "idle")

\* What the successful exchanges of command cmd can return
SuccessfulResults(cmd) ==
    {cleanReturn(FirstFrame(DeviceReply(Command(cmd, v).writebyte, pl))) :
        v \in {w \in Vals : Command(cmd, w).kind = "send"},
        pl \in Replies(cmd)}

\* C6: what a command returns for a rejected argument is nothing a successful
\* exchange of that command can return.
C6_RejectionDistinguishable ==
    outcome = "rejected" => msgbytes \notin SuccessfulResults(cur.cmd)

\* The name each command has on the wire
WireName(cmd) ==
    CASE cmd = "agc" -> <<"a", "g", "c">>
      [] cmd = "attenuate" -> <<"a", "t", "t", "e", "n", "u", "a", "t", "e">>
      [] cmd = "caloutput" -> <<"c", "a", "l", "o", "u", "t", "p", "u", "t">>
      [] cmd = "dac" -> <<"d", "a", "c">>
      [] cmd = "data" -> <<"d", "a", "t", "a">>
      [] cmd = "deviceid" -> <<"d", "e", "v", "i", "c", "e", "i", "d">>
      [] cmd = "ext_gain" -> <<"e", "x", "t", "_", "g", "a", "i", "n">>
      [] cmd = "freq" -> <<"f", "r", "e", "q">>
      [] cmd = "setIF" -> <<"i", "f">>
      [] cmd = "if1" -> <<"i", "f", "1">>
      [] cmd = "levelchange" -> <<"l", "e", "v", "e", "l", "c", "h", "a", "n", "g", "e">>
      [] cmd = "load" -> <<"l", "o", "a", "d">>
      [] cmd = "lna" -> <<"l", "n", "a">>
      [] cmd = "lna2" -> <<"l", "n", "a", "2">>
      [] cmd = "output" -> <<"o", "u", "t", "p", "u", "t">>
      [] cmd = "rbw" -> <<"r", "b", "w">>
      [] cmd = "recall" -> <<"r", "e", "c", "a", "l", "l">>
      [] cmd = "refresh" -> <<"r", "e", "f", "r", "e", "s", "h">>
      [] cmd = "save" -> <<"s", "a", "v", "e">>
      [] cmd = "selftest" -> <<"s", "e", "l", "f", "t", "e", "s", "t">>
      [] cmd = "spur" -> <<"s", "p", "u", "r">>
      [] cmd = "vbat_offset" -> <<"v", "b", "a", "t", "_", "o", "f", "f", "s", "e", "t">>

\* The command line of cmd with argument val: the name alone without an
\* argument, else the name, a space and the argument's text
CommandLine(cmd, val) ==
    IF val = None_
    THEN WireName(cmd) \o CRLF
    ELSE WireName(cmd) \o <<" ">> \o str(val) \o CRLF

\* C7: a command called with an accepted argument makes exactly one write,
\* of its command line.
C7_WireFormat ==
    (cur.cmd \in ValidatingCommands /\ outcome \in {"pending", "returned"}) =>
        written = <<CommandLine(cur.cmd, cur.val)>>

\* The commands with a numeric range and the range of their usage line
RangeCommands ==
    {"attenuate", "agc", "lna2", "levelchange", "ext_gain", "dac",
     "vbat_offset", "rbw"}

DocRange(cmd) ==
    CASE cmd = "attenuate" -> 0..31
      [] cmd = "agc" -> 0..7
      [] cmd = "lna2" -> 0..7
      [] cmd = "levelchange" -> -70..70
      [] cmd = "ext_gain" -> -100..100
      [] cmd = "dac" -> 0..4095
      [] cmd = "vbat_offset" -> 0..4095
      [] cmd = "rbw" -> 3..600

\* C8: on an open connection a numeric-range command accepts an integer
\* exactly when it lies in the documented range, ends included.
C8_DocumentedRanges ==
    (/\ ser = "open"
     /\ cur.cmd \in RangeCommands
     /\ cur.val.t = "int"
     /\ outcome # "none") =>
        (outcome # "rejected" <=> cur.val.v \in DocRange(cur.cmd))

\* The normalisation as documented: drop everything up to and including the
\* first '\r\n' if there is one, then drop a trailing 'ch>', those three
\* bytes only
normalizeReference(x) ==
    LET i == find(x, CRLF)
        y == IF i # -1 THEN from(x, i + 2) ELSE x
    IN  IF endswith(y, PROMPT) THEN upto(y, Len(y) - 3) ELSE y

\* C9: cleanReturn equals the documented normalisation on every byte string.
C9_CleanReturnReference ==
    outcome = "returned" => msgbytes = normalizeReference(frame)

\* Texts without the delimiter byte
Texts == {<<"1", ".", "2", ".", "3">>, <<"a", "\r", "\n", "b">>}

NoMarkers(x) == find(x, CRLF) = -1 /\ ~endswith(x, PROMPT)

\* C11: when cleanReturn(x) holds no framing marker, cleanReturn applied to
\* it returns it unchanged: cleanReturn(cleanReturn(x)) = cleanReturn(x).
C11_Idempotent ==
    (outcome = "again" /\ NoMarkers(msgbytes)) => msgbytes2 = msgbytes

\* A byte string with an echo line was normalised to a non-empty payload
\* without markers, and normalised again
C11_Witness ==
    /\ outcome = "again"
    /\ find(frame, CRLF) # -1
    /\ msgbytes # <<>>
    /\ NoMarkers(msgbytes)
    /\ msgbytes2 = msgbytes


\* C12: a capture whose reply is the echo, '\r\n', a payload P that may hold
\* '>' or 'ch>', '\r\n' and 'ch>', read after a start with nothing unread,
\* returns a value that holds the bytes of P, in order and contiguous.
C12_BinaryPassThrough ==
    (outcome = "returned" /\ clean /\ cur.cmd = "capture") =>
        find(msgbytes, dropLast(payload, 2)) # -1


\* C15: the call leaves the loop of getSerialReturn, by a return or by an
\* error, only on an iteration whose buffer holds the delimiter byte; an
\* iteration that finds nothing to read never ends the call.
C15_NoGiveUp ==
    [][(pc = "loop" /\ pc' # "loop") =>
            find(buffer \o in_waiting, DELIM) # -1]_vars

\* The call is still in the loop after bytes without the delimiter were read
\* and after as many empty iterations as the model follows
C15_Witness ==
    /\ pc = "loop"
    /\ outcome = "pending"
    /\ nreads >= 1
    /\ polls = MaxPolls
    /\ in_waiting = <<>>
    /\ find(buffer, DELIM) = -1


\* C13: when the port has failed, the next iteration of the read loop ends
\* the call with an exception at the caller: the call does not stay in the
\* loop, and it returns no value.
C13_FaultSurfaces ==
    [][(pc = "loop" /\ ser = "broken") =>
            (pc' = "idle" /\ outcome' = "raised" /\ msgbytes' = <<>>)]_vars

\* A call that had written its command and read a part of the reply ended
\* with an exception on the failed port
C13_Witness ==
    /\ ser = "broken"
    /\ pc = "idle"
    /\ outcome = "raised"
    /\ written # <<>>
    /\ nreads >= 1
    /\ lost # <<>>


\* C14: a call of an unimplemented method returns None, writes nothing to
\* the port and reads nothing from it, and leaves the port and the bytes in
\* transit as they were, with self.ser None or open.
C14_UnimplementedNoIO ==
    [][(ncalls' # ncalls /\ cur'.cmd \in UnimplementedCommands) =>
            /\ outcome' = "notimplemented"
            /\ pc' = "idle"
            /\ written' = <<>>
            /\ nreads' = 0
            /\ ser' = ser
            /\ wire' = wire
            /\ in_waiting' = in_waiting
            /\ aux' = aux]_vars

\* An unimplemented method returned None on an open port that holds unread
\* bytes of an earlier reply
C14_Witness ==
    /\ cur.cmd \in UnimplementedCommands
    /\ outcome = "notimplemented"
    /\ ser = "open"
    /\ in_waiting # <<>>
    /\ written = <<>>
    /\ nreads = 0


\* C17: after any sequence of connect and disconnect calls, at most one
\* serial.Serial object created by this object is still open.
C17_AtMostOneOpen ==
    Cardinality(opened) <= 1

\* C18: a call of connect returns True exactly when serial.Serial opened the
\* port, and self.ser then is the new, open object; otherwise it returns
\* False, raising nothing, and self.ser and the open objects are as before.
C18_ConnectResult ==
    [][(nconn' # nconn) =>
            \/ /\ nserial' = nserial + 1
               /\ ret' = "True"
               /\ hid' = nserial'
               /\ hid' \in opened'
               /\ ser' = "open"
            \/ /\ nserial' = nserial
               /\ ret' = "False"
               /\ hid' = hid
               /\ ser' = ser
               /\ opened' = opened]_vars

\* A connect that could not open its port returned False after an earlier
\* connect had succeeded, and the earlier object is still stored and open
C18_Witness ==
    /\ nconn >= 2
    /\ ret = "False"
    /\ nserial = 1
    /\ hid = 1
    /\ ser = "open"
    /\ opened = {1}


\* C16: whichever threads call commands on the object, at most one call is
\* between its write and its return at any time, and every call that
\* returned got a frame that begins with the command line it wrote.
C16_OneInFlight ==
    /\ Cardinality({t \in Threads : th[t].pc = "loop"}) <= 1
    /\ \A t \in Threads :
          th[t].outcome = "returned" => startswith(th[t].frame, th[t].written)

====
